---- MODULE Spec2Model ----
(***************************************************************************)
(* Model of the streaming comparison coordinator of the ModelComparison    *)
(* component (the version with the SSE read loop): runComparison,          *)
(* stopComparison, resetComparison, fetchComparisonData, the one-second    *)
(* progress interval and the six-minute stream timeout.                    *)
(*                                                                         *)
(* The three handlers are modelled as the control surface of the           *)
(* coordinator: they may be invoked in every state, because none of them   *)
(* tests isRunning or loading itself (the rendered page offers them only   *)
(* in some states).  One JavaScript turn (a handler, or the continuation   *)
(* of an await together with the microtasks it queues) is one action.      *)
(* Times are in tenths of a second.                                        *)
(***************************************************************************)
EXTENDS Integers, Sequences, FiniteSets, TLC

\* ------------------------------------------------------------------ bounds
\* the number of edits, starts, stream events and clock advances in a behaviour
MaxWork == 4
\* the same, where the query and the selection are edited freely
MaxConfigWork == 5
\* the same, where the server sends the events of the scripted runs
MaxScriptWork == 7
\* the same, where the stream arrives as chunks of bytes
MaxDecoderWork == 5
\* the same, where the clock advances far enough for the synthetic cap
MaxClockWork == 5

\* ------------------------------------------------------- program constants
SyntheticCap == 15
BaseDelay10 == 20
DelayStep10 == 12
BaseRate100 == 35
RateStep100 == 12

\* --------------------------------------------------------------- universes
ModelIds == {"zhipu", "deepseek", "kimi"}
InitialSelectedModels == <<"zhipu", "deepseek", "kimi">>

\* JavaScript undefined / NaN in a numeric field
Undef == -1
NaN == -2

\* text is a sequence of characters
Blank == " "
QueryInputs == {<<>>, <<Blank>>, <<"q">>}
KeyInputs == {<<>>, <<Blank>>, <<"k">>}
\* the credential store read by the render that created the handler:
\* a map from some of the model ids to text
AllKeys == [m \in ModelIds |-> <<"k">>]
Without(keys, m) == [x \in DOMAIN keys \ {m} |-> keys[x]]
KeyMaps ==
  {AllKeys, Without(AllKeys, "deepseek")}
    \cup {[AllKeys EXCEPT !["kimi"] = k] : k \in KeyInputs}

NoError == <<>>
NoSession == "null"
NoResult == [model |-> "", tag |-> 0]

\* variant: the text is used as typed
Trim_AsTyped(s) == s

RECURSIVE TrimLeft(_)
TrimLeft(s) ==
  IF s # <<>> /\ Head(s) = Blank THEN TrimLeft(Tail(s)) ELSE s

RECURSIVE TrimRight(_)
TrimRight(s) ==
  IF s # <<>> /\ s[Len(s)] = Blank THEN TrimRight(SubSeq(s, 1, Len(s) - 1)) ELSE s

Trim(s) == TrimRight(TrimLeft(s))

Max(a, b) == IF a >= b THEN a ELSE b
Min(a, b) == IF a <= b THEN a ELSE b

\* ------------------------------------------------------------------- state
VARIABLES
  query,               \* useState('')
  selectedModels,      \* useState([...]), a sequence without repetition
  isRunning,           \* useState(false)
  latestSession,       \* useState(null)
  earlyResults,        \* useState([]), a sequence of results
  modelProgress,       \* useState({}), entries in key insertion order
  error,               \* useState(null)
  loading,             \* useState(true)
  abortControllerRef,  \* 0 for null, else the run whose controller it holds
  runs,                \* the invocations of runComparison, in start order
  mountFetch,          \* the fetchComparisonData of the mount effect is pending
  now,                 \* Date.now()
  work                 \* edits, starts, events and clock advances so far

vars == <<query, selectedModels, isRunning, latestSession, earlyResults,
          modelProgress, error, loading, abortControllerRef, runs,
          mountFetch, now, work>>

\* ------------------------------------------------ the worker map (an object)
Keys(mp) == [i \in 1..Len(mp) |-> mp[i].model]

HasKey(mp, k) == \E i \in 1..Len(mp) : mp[i].model = k

IndexOf(mp, k) == CHOOSE i \in 1..Len(mp) : mp[i].model = k

\* prev[k] spread into a new object: the fields of a missing entry are undefined
EmptyEntry(k) ==
  [model |-> k, stage |-> "undefined", startTime |-> Undef,
   currentDuration |-> Undef, progress |-> Undef, status |-> "undefined",
   resultSummary |-> "undefined"]

Get(mp, k) == IF HasKey(mp, k) THEN mp[IndexOf(mp, k)] ELSE EmptyEntry(k)

\* {...prev, [k]: e}: an existing key keeps its position, a new key goes last
Put(mp, k, e) ==
  IF HasKey(mp, k)
    THEN [mp EXCEPT ![IndexOf(mp, k)] = e]
    ELSE Append(mp, e)

SeqToSet(s) == {s[i] : i \in 1..Len(s)}

SelectIn(s, S) == SelectSeq(s, LAMBDA x : x \in S)

\* ----------------------------------------------------------------- Init
Init ==
  /\ query = <<>>
  /\ selectedModels = InitialSelectedModels
  /\ isRunning = FALSE
  /\ latestSession = NoSession
  /\ earlyResults = <<>>
  /\ modelProgress = <<>>
  /\ error = NoError
  /\ loading = TRUE
  /\ abortControllerRef = 0
  /\ runs = <<>>
  /\ mountFetch = TRUE
  /\ now = 0
  /\ work = 0

\* ------------------------------------------------------------ UI edits
SetQuery(q) ==
  /\ q # query
  /\ query' = q
  /\ UNCHANGED <<selectedModels, isRunning, latestSession, earlyResults,
                 modelProgress, error, loading, abortControllerRef, runs,
                 mountFetch, now>>

ToggleModel(m) ==
  /\ selectedModels' =
       IF m \in SeqToSet(selectedModels)
         THEN SelectIn(selectedModels, ModelIds \ {m})
         ELSE Append(selectedModels, m)
  /\ UNCHANGED <<query, isRunning, latestSession, earlyResults,
                 modelProgress, error, loading, abortControllerRef, runs,
                 mountFetch, now>>

\* ------------------------------------------------ runComparison, first turn
Missing(sel, keys) ==
  SelectSeq(sel, LAMBDA m : IF m \in DOMAIN keys THEN Trim(keys[m]) = <<>> ELSE TRUE)

\* getModelName: the display name of a model stands for itself
getModelName(id) == id

MissingKeysMsg(missing) ==
  <<"Missing API keys for: ">> \o [i \in 1..Len(missing) |-> getModelName(missing[i])]
    \o <<". Please configure all keys first.">>

InitialProgress(sel, t) ==
  [i \in 1..Len(sel) |->
     [model |-> sel[i], stage |-> "Initializing...", startTime |-> t,
      currentDuration |-> 0, progress |-> 0, status |-> "pending",
      resultSummary |-> "undefined"]]

RECURSIVE StartTracking(_, _)
StartTracking(mp, sel) ==
  IF sel = <<>> THEN mp
  ELSE StartTracking(
         Put(mp, Head(sel),
             [Get(mp, Head(sel)) EXCEPT !.status = "running",
                                        !.stage = "Running research...",
                                        !.progress = 0]),
         Tail(sel))

\* one invocation of runComparison: where it is suspended (pc), the
\* selectedModels of its closure, its eventCount, whether its streamTimeout
\* is armed, its sseBuffer, the bytes its TextDecoder holds back, and the
\* events it has written to the console (log); history: refreshes counts
\* its calls of fetchComparisonData, stopRequested tells that stop or reset
\* ran while it was active
NewRun(sel) ==
  [pc |-> "fetch", sel |-> sel, eventCount |-> 0, streamTimeout |-> FALSE,
   sseBuffer |-> <<>>, decoder |-> <<>>, log |-> <<>>, refreshes |-> 0,
   stopRequested |-> FALSE]

\* variant: the state of the previous run is cleared before the credentials
\* are checked
RunComparison_ClearFirst(keys) ==
  LET trimmedQuery == Trim(query)
      missingKeys == Missing(selectedModels, keys)
  IN
  IF trimmedQuery = <<>> \/ Len(selectedModels) = 0 THEN
    UNCHANGED <<query, selectedModels, isRunning, latestSession,
                   earlyResults, modelProgress, error, loading,
                   abortControllerRef, runs, mountFetch, now>>
  ELSE IF Len(missingKeys) > 0 THEN
    /\ error' = MissingKeysMsg(missingKeys)
    /\ earlyResults' = <<>>
    /\ latestSession' = NoSession
    /\ UNCHANGED <<query, selectedModels, isRunning, modelProgress, loading,
                   abortControllerRef, runs, mountFetch, now>>
  ELSE
    /\ isRunning' = TRUE
    /\ error' = NoError
    /\ earlyResults' = <<>>
    /\ latestSession' = NoSession
    /\ modelProgress' =
         StartTracking(InitialProgress(selectedModels, now), selectedModels)
    /\ abortControllerRef' = Len(runs) + 1
    /\ runs' = Append(runs, NewRun(selectedModels))
    /\ UNCHANGED <<query, selectedModels, loading, mountFetch, now>>

\* variant: a new run keeps the early results of the previous one
RunComparison_KeepEarly(keys) ==
  LET trimmedQuery == Trim(query)
      missingKeys == Missing(selectedModels, keys)
  IN
  IF trimmedQuery = <<>> \/ Len(selectedModels) = 0 THEN
    UNCHANGED <<query, selectedModels, isRunning, latestSession,
                   earlyResults, modelProgress, error, loading,
                   abortControllerRef, runs, mountFetch, now>>
  ELSE IF Len(missingKeys) > 0 THEN
    /\ error' = MissingKeysMsg(missingKeys)
    /\ UNCHANGED <<query, selectedModels, isRunning, latestSession,
                   earlyResults, modelProgress, loading,
                   abortControllerRef, runs, mountFetch, now>>
  ELSE
    /\ isRunning' = TRUE
    /\ error' = NoError
    /\ latestSession' = NoSession
    /\ modelProgress' =
         StartTracking(InitialProgress(selectedModels, now), selectedModels)
    /\ abortControllerRef' = Len(runs) + 1
    /\ runs' = Append(runs, NewRun(selectedModels))
    /\ UNCHANGED <<query, selectedModels, earlyResults, loading, mountFetch, now>>

RunComparison(keys) ==
  LET trimmedQuery == Trim(query)
      missingKeys == Missing(selectedModels, keys)
  IN
  IF trimmedQuery = <<>> \/ Len(selectedModels) = 0 THEN
    UNCHANGED <<query, selectedModels, isRunning, latestSession,
                   earlyResults, modelProgress, error, loading,
                   abortControllerRef, runs, mountFetch, now>>
  ELSE IF Len(missingKeys) > 0 THEN
    /\ error' = MissingKeysMsg(missingKeys)
    /\ UNCHANGED <<query, selectedModels, isRunning, latestSession,
                   earlyResults, modelProgress, loading,
                   abortControllerRef, runs, mountFetch, now>>
  ELSE
    /\ isRunning' = TRUE
    /\ error' = NoError
    /\ earlyResults' = <<>>
    /\ latestSession' = NoSession
    /\ modelProgress' =
         StartTracking(InitialProgress(selectedModels, now), selectedModels)
    /\ abortControllerRef' = Len(runs) + 1
    /\ runs' = Append(runs, NewRun(selectedModels))
    /\ UNCHANGED <<query, selectedModels, loading, mountFetch, now>>

\* ------------------------------------------------ catch / finally of a run
RECURSIVE MarkAllFailed(_, _)
MarkAllFailed(mp, sel) ==
  IF sel = <<>> THEN mp
  ELSE LET m == Head(sel)
           p == Get(mp, m).progress
       IN MarkAllFailed(
            Put(mp, m, [Get(mp, m) EXCEPT !.status = "failed",
                                          !.stage = "Failed",
                                          !.progress = IF p = Undef \/ p = 0 THEN 0 ELSE p]),
            Tail(sel))

\* variant: a failed run refreshes the metrics as well
RunFails_Refresh(r, msg) ==
  /\ error' = <<msg>>
  /\ modelProgress' = MarkAllFailed(modelProgress, runs[r].sel)
  /\ abortControllerRef' = 0
  /\ isRunning' = FALSE
  /\ runs' = [runs EXCEPT ![r].pc = "done", ![r].streamTimeout = FALSE,
                          ![r].refreshes = @ + 1]
  /\ UNCHANGED <<query, selectedModels, latestSession, earlyResults, loading,
                 mountFetch, now>>

\* variant: the catch block without the finally block
RunFails_NoFinally(r, msg) ==
  /\ error' = <<msg>>
  /\ modelProgress' = MarkAllFailed(modelProgress, runs[r].sel)
  /\ runs' = [runs EXCEPT ![r].pc = "done", ![r].streamTimeout = FALSE]
  /\ UNCHANGED <<query, selectedModels, isRunning, latestSession, earlyResults,
                 loading, abortControllerRef, mountFetch, now>>

\* a rejection other than AbortError: catch block, then finally
RunFails(r, msg) ==
  /\ error' = <<msg>>
  /\ modelProgress' = MarkAllFailed(modelProgress, runs[r].sel)
  /\ abortControllerRef' = 0
  /\ isRunning' = FALSE
  /\ runs' = [runs EXCEPT ![r].pc = "done", ![r].streamTimeout = FALSE]
  /\ UNCHANGED <<query, selectedModels, latestSession, earlyResults, loading,
                 mountFetch, now>>

FetchOutcomes == {"ok", "status", "nobody", "reject"}

FetchMessage(o) ==
  CASE o = "status" -> "HTTP error! status"
    [] o = "nobody" -> "Response body is null - SSE stream failed to open"
    [] OTHER -> "Failed to fetch"

\* the fetch of /research/compare settles
FetchSettles(r, o) ==
  /\ runs[r].pc = "fetch"
  /\ IF o = "ok" THEN
       /\ runs' = [runs EXCEPT ![r].pc = "read", ![r].streamTimeout = TRUE]
       /\ UNCHANGED <<query, selectedModels, isRunning, latestSession,
                      earlyResults, modelProgress, error, loading,
                      abortControllerRef, mountFetch, now>>
     ELSE RunFails(r, FetchMessage(o))

\* --------------------------------------------------------- stream events
ProgressInputs == {1, 40}
\* the workers the server names in its events
EventModels == {"zhipu", "deepseek"}

Evt(type, model, stage, elapsed, progress, summary, result, message, session) ==
  [type |-> type, model |-> model, stage |-> stage, elapsed |-> elapsed,
   progress |-> progress, result_summary |-> summary, result |-> result,
   message |-> message, session |-> session]

ProgressEvents ==
  {Evt("model_progress", m, "Researching", 30, p, "undefined", NoResult, "", NoSession) :
     m \in EventModels, p \in ProgressInputs}

CompleteEvents ==
  {Evt("model_complete", m, "", 80, Undef, "summary",
       IF full THEN [model |-> m, tag |-> 1] ELSE NoResult, "", NoSession) :
     m \in EventModels, full \in BOOLEAN}

ErrorEvents ==
  {Evt("model_error", m, st, 50, p, "undefined", NoResult, "", NoSession) :
     m \in EventModels, st \in {"", "Rate limited"}, p \in {Undef}}

StreamErrorEvents ==
  {Evt("error", "", "", Undef, Undef, "undefined", NoResult, msg, NoSession) :
     msg \in {"", "boom"}}

SessionEvents ==
  {Evt("session_complete", "", "", Undef, Undef, "undefined", NoResult, "", "s1")}

OtherEvents ==
  {Evt(t, "", "", Undef, Undef, "undefined", NoResult, "", NoSession) :
     t \in {"session_start", "heartbeat", "unknown"}}

Events == ProgressEvents \cup CompleteEvents \cup ErrorEvents
            \cup StreamErrorEvents \cup SessionEvents \cup OtherEvents

OnModelProgress(prev, evt) ==
  Put(prev, evt.model,
      [Get(prev, evt.model) EXCEPT !.stage = evt.stage,
                                   !.currentDuration = evt.elapsed,
                                   !.progress = evt.progress,
                                   !.status = "running"])

\* variant: the completion keeps the progress the worker had
OnModelComplete_KeepProgress(prev, evt) ==
  Put(prev, evt.model,
      [Get(prev, evt.model) EXCEPT !.stage = "Completed",
                                   !.currentDuration = evt.elapsed,
                                   !.status = "completed",
                                   !.resultSummary = evt.result_summary])

OnModelComplete(prev, evt) ==
  Put(prev, evt.model,
      [Get(prev, evt.model) EXCEPT !.stage = "Completed",
                                   !.currentDuration = evt.elapsed,
                                   !.progress = 100,
                                   !.status = "completed",
                                   !.resultSummary = evt.result_summary])

\* variant: the error of one worker fails every worker that is running
OnModelError_FailAll(prev, evt) ==
  LET failed == Put(prev, evt.model,
                    [Get(prev, evt.model) EXCEPT
                       !.stage = IF evt.stage = "" THEN "Failed" ELSE evt.stage,
                       !.currentDuration = evt.elapsed,
                       !.progress = IF evt.progress = Undef \/ evt.progress = 0
                                      THEN 0 ELSE evt.progress,
                       !.status = "failed"])
  IN [i \in 1..Len(failed) |->
        IF failed[i].status = "running"
          THEN [failed[i] EXCEPT !.status = "failed", !.stage = "Failed"]
          ELSE failed[i]]

\* variant: the progress of the event is stored as it is
OnModelError_RawProgress(prev, evt) ==
  Put(prev, evt.model,
      [Get(prev, evt.model) EXCEPT
         !.stage = IF evt.stage = "" THEN "Failed" ELSE evt.stage,
         !.currentDuration = evt.elapsed,
         !.progress = evt.progress,
         !.status = "failed"])

\* variant: the error is recorded but the worker keeps its status
OnModelError_KeepStatus(prev, evt) ==
  Put(prev, evt.model,
      [Get(prev, evt.model) EXCEPT
         !.stage = IF evt.stage = "" THEN "Failed" ELSE evt.stage,
         !.currentDuration = evt.elapsed,
         !.progress = IF evt.progress = Undef \/ evt.progress = 0 THEN 0 ELSE evt.progress])

OnModelError(prev, evt) ==
  Put(prev, evt.model,
      [Get(prev, evt.model) EXCEPT
         !.stage = IF evt.stage = "" THEN "Failed" ELSE evt.stage,
         !.currentDuration = evt.elapsed,
         !.progress = IF evt.progress = Undef \/ evt.progress = 0 THEN 0 ELSE evt.progress,
         !.status = "failed"])

\* variant: the result is appended to whatever the list holds
UpsertResult_Append(prev, evt) == Append(prev, evt.result)

UpsertResult(prev, evt) ==
  Append(SelectSeq(prev, LAMBDA res : res.model # evt.model), evt.result)

\* variant: an error event of the stream fails the workers that are running
ProgressAfter_ErrorFailsAll(prev, evt) ==
  CASE evt.type = "model_progress" -> OnModelProgress(prev, evt)
    [] evt.type = "model_complete" -> OnModelComplete(prev, evt)
    [] evt.type = "model_error" -> OnModelError(prev, evt)
    [] evt.type = "error" ->
         [i \in 1..Len(prev) |->
            IF prev[i].status = "running"
              THEN [prev[i] EXCEPT !.status = "failed", !.stage = "Failed"]
              ELSE prev[i]]
    [] OTHER -> prev

\* the state after the dispatch of one parsed event
ProgressAfter(prev, evt) ==
  CASE evt.type = "model_progress" -> OnModelProgress(prev, evt)
    [] evt.type = "model_complete" -> OnModelComplete(prev, evt)
    [] evt.type = "model_error" -> OnModelError(prev, evt)
    [] OTHER -> prev

EarlyAfter(prev, evt) ==
  IF evt.type = "model_complete" /\ evt.result # NoResult
    THEN UpsertResult(prev, evt) ELSE prev

\* variant: an event of a kind the dispatch does not know is an error
ErrorAfter_UnknownKind(prev, evt) ==
  IF evt.type = "error"
    THEN <<IF evt.message = "" THEN "Backend stream error" ELSE evt.message>>
    ELSE IF evt.type = "unknown" THEN <<"Unknown event">> ELSE prev

ErrorAfter(prev, evt) ==
  IF evt.type = "error"
    THEN <<IF evt.message = "" THEN "Backend stream error" ELSE evt.message>>
    ELSE prev

SessionAfter(prev, evt) ==
  IF evt.type = "session_complete" THEN evt.session ELSE prev

\* the console line written for a parsed event
LogLine(evt) == <<evt.type, evt.model, evt.progress>>

\* reader.read() yields a chunk holding one data line that parses to evt,
\* while sseBuffer is empty
ReadEvent(r, evt) ==
  /\ runs[r].pc = "read"
  /\ modelProgress' = ProgressAfter(modelProgress, evt)
  /\ earlyResults' = EarlyAfter(earlyResults, evt)
  /\ error' = ErrorAfter(error, evt)
  /\ latestSession' = SessionAfter(latestSession, evt)
  /\ runs' = [runs EXCEPT ![r].eventCount = @ + 1,
                          ![r].log = Append(@, LogLine(evt))]
  /\ UNCHANGED <<query, selectedModels, isRunning, loading,
                 abortControllerRef, mountFetch, now>>

\* ------------------------------------------- the stream as chunks of bytes
\* A chunk is a sequence of bytes.  An ASCII byte is written as its
\* character; Lead and Cont are the two bytes of one non-ASCII character.
LF == "\n"
CR == "\r"
Lead == "0xC3"
Cont == "0xA9"
EAcute == "U+00E9"
Replacement == "U+FFFD"

\* TextDecoder.decode(value, {stream: true}): the bytes of an unfinished
\* character are held back for the next call
RECURSIVE Utf8Decode(_, _, _)
Utf8Decode(held, bytes, out) ==
  IF bytes = <<>> THEN [text |-> out, held |-> held]
  ELSE LET b == Head(bytes) IN
    IF held = <<>> THEN
      IF b = Lead THEN Utf8Decode(<<Lead>>, Tail(bytes), out)
      ELSE IF b = Cont THEN Utf8Decode(<<>>, Tail(bytes), Append(out, Replacement))
      ELSE Utf8Decode(<<>>, Tail(bytes), Append(out, b))
    ELSE
      IF b = Cont THEN Utf8Decode(<<>>, Tail(bytes), Append(out, EAcute))
      ELSE Utf8Decode(<<>>, bytes, Append(out, Replacement))

\* text.split('\n'), then lines.pop(): the complete lines and the rest
RECURSIVE SplitLines(_, _, _)
SplitLines(text, line, lines) ==
  IF text = <<>> THEN [lines |-> lines, rest |-> line]
  ELSE IF Head(text) = LF
    THEN SplitLines(Tail(text), <<>>, Append(lines, line))
    ELSE SplitLines(Tail(text), Append(line, Head(text)), lines)

\* rawLine.replace(/\r$/, '')
StripCR(rawLine) ==
  IF rawLine # <<>> /\ rawLine[Len(rawLine)] = CR
    THEN SubSeq(rawLine, 1, Len(rawLine) - 1) ELSE rawLine

DataPrefix == <<"d", "a", "t", "a", ":", " ">>

StartsWith(line, prefix) ==
  Len(line) >= Len(prefix) /\ SubSeq(line, 1, Len(prefix)) = prefix

\* the JSON texts of the model: an object is written {x}, where x names
\* the event it denotes
JsonObjects == {"p", "c", "s", EAcute}

JsonObject(x) ==
  CASE x = "p" -> Evt("model_progress", "zhipu", "Researching", 30, 40, "undefined", NoResult, "", NoSession)
    [] x = "c" -> Evt("model_complete", "zhipu", "", 80, Undef, "summary", [model |-> "zhipu", tag |-> 1], "", NoSession)
    [] x = "s" -> Evt("session_complete", "", "", Undef, Undef, "undefined", NoResult, "", "s1")
    [] OTHER -> Evt("model_error", "deepseek", "", 50, Undef, "undefined", NoResult, "", NoSession)

JsonNull == <<"n", "u", "l", "l">>

\* JSON.parse: an object, null, or a SyntaxError
JsonParse(text) ==
  IF Len(text) = 3 /\ text[1] = "{" /\ text[3] = "}" /\ text[2] \in JsonObjects
    THEN [kind |-> "object", value |-> JsonObject(text[2])]
  ELSE IF text = JsonNull THEN [kind |-> "null", value |-> Evt("", "", "", Undef, Undef, "undefined", NoResult, "", NoSession)]
  ELSE [kind |-> "SyntaxError", value |-> Evt("", "", "", Undef, Undef, "undefined", NoResult, "", NoSession)]

\* what one iteration of the read loop reads and writes: the locals of the
\* invocation and the component state behind the functional updaters
ReaderState(run, mp, early, err, session) ==
  [sseBuffer |-> run.sseBuffer, decoder |-> run.decoder,
   eventCount |-> run.eventCount, log |-> run.log,
   modelProgress |-> mp, earlyResults |-> early, error |-> err,
   latestSession |-> session]

\* the dispatch of one parsed event
Dispatch(st, evt) ==
  [st EXCEPT !.eventCount = @ + 1,
             !.log = Append(@, LogLine(evt)),
             !.modelProgress = ProgressAfter(@, evt),
             !.earlyResults = EarlyAfter(@, evt),
             !.error = ErrorAfter(@, evt),
             !.latestSession = SessionAfter(@, evt)]

\* variant: a payload that does not parse is reported as the run's error
ProcessLine_Report(st, rawLine) ==
  LET line == StripCR(rawLine) IN
  IF StartsWith(line, DataPrefix) THEN
    LET parsed == JsonParse(SubSeq(line, Len(DataPrefix) + 1, Len(line))) IN
    IF parsed.kind = "SyntaxError" THEN [st EXCEPT !.error = <<"SyntaxError">>]
    ELSE IF parsed.kind = "null" THEN [st EXCEPT !.eventCount = @ + 1]
    ELSE Dispatch(st, parsed.value)
  ELSE st

\* the body of the for loop: a SyntaxError of JSON.parse, and the TypeError
\* of reading evt.type of null after eventCount++, end in the empty catch
ProcessLine(st, rawLine) ==
  LET line == StripCR(rawLine) IN
  IF StartsWith(line, DataPrefix) THEN
    LET parsed == JsonParse(SubSeq(line, Len(DataPrefix) + 1, Len(line))) IN
    IF parsed.kind = "SyntaxError" THEN st
    ELSE IF parsed.kind = "null" THEN [st EXCEPT !.eventCount = @ + 1]
    ELSE Dispatch(st, parsed.value)
  ELSE st

RECURSIVE ProcessLines(_, _)
ProcessLines(st, lines) ==
  IF lines = <<>> THEN st
  ELSE ProcessLines(ProcessLine(st, Head(lines)), Tail(lines))

\* variant: each chunk is split on its own, nothing is carried over
Feed_NoCarry(st, chunk) ==
  LET decoded == Utf8Decode(st.decoder, chunk, <<>>)
      split == SplitLines(decoded.text, <<>>, <<>>)
  IN ProcessLines([st EXCEPT !.decoder = decoded.held,
                             !.sseBuffer = split.rest],
                  split.lines)

\* one iteration of the read loop on a chunk
Feed(st, chunk) ==
  LET decoded == Utf8Decode(st.decoder, chunk, <<>>)
      split == SplitLines(st.sseBuffer \o decoded.text, <<>>, <<>>)
  IN ProcessLines([st EXCEPT !.decoder = decoded.held,
                             !.sseBuffer = split.rest],
                  split.lines)

\* reader.read() yields a chunk
ReadChunk(r, chunk) ==
  /\ runs[r].pc = "read"
  /\ LET st == Feed(ReaderState(runs[r], modelProgress, earlyResults, error,
                                latestSession), chunk)
     IN /\ modelProgress' = st.modelProgress
        /\ earlyResults' = st.earlyResults
        /\ error' = st.error
        /\ latestSession' = st.latestSession
        /\ runs' = [runs EXCEPT ![r].sseBuffer = st.sseBuffer,
                                ![r].decoder = st.decoder,
                                ![r].eventCount = st.eventCount,
                                ![r].log = st.log]
  /\ UNCHANGED <<query, selectedModels, isRunning, loading,
                 abortControllerRef, mountFetch, now>>

\* variant: at the end of the stream the rest of the buffer is interpreted
\* as a last line
LeaveLoop_Flush(r) ==
  LET st == ProcessLine(ReaderState(runs[r], modelProgress, earlyResults,
                                    error, latestSession), runs[r].sseBuffer)
  IN /\ runs' = [runs EXCEPT ![r].pc = "refresh", ![r].streamTimeout = FALSE,
                             ![r].refreshes = @ + 1,
                             ![r].eventCount = st.eventCount,
                             ![r].log = st.log]
     /\ loading' = TRUE
     /\ error' = NoError
     /\ modelProgress' = st.modelProgress
     /\ earlyResults' = st.earlyResults
     /\ latestSession' = st.latestSession
     /\ UNCHANGED <<query, selectedModels, isRunning, abortControllerRef,
                    mountFetch, now>>

\* variant: leaving the read loop fails the workers that have not finished
LeaveLoop_FailOpen(r) ==
  /\ runs' = [runs EXCEPT ![r].pc = "refresh", ![r].streamTimeout = FALSE,
                          ![r].refreshes = @ + 1]
  /\ loading' = TRUE
  /\ error' = NoError
  /\ modelProgress' =
       [i \in 1..Len(modelProgress) |->
          IF modelProgress[i].status \in {"running", "pending"}
            THEN [modelProgress[i] EXCEPT !.status = "failed", !.stage = "Failed"]
            ELSE modelProgress[i]]
  /\ UNCHANGED <<query, selectedModels, isRunning, latestSession,
                 earlyResults, abortControllerRef, mountFetch, now>>

\* leaving the read loop: clearTimeout, then fetchComparisonData runs up to
\* its await
LeaveLoop(r) ==
  /\ runs' = [runs EXCEPT ![r].pc = "refresh", ![r].streamTimeout = FALSE,
                          ![r].refreshes = @ + 1]
  /\ loading' = TRUE
  /\ error' = NoError
  /\ UNCHANGED <<query, selectedModels, isRunning, latestSession,
                 earlyResults, modelProgress, abortControllerRef,
                 mountFetch, now>>

\* reader.read() yields done: the server closed the stream
ReadDone(r) ==
  /\ runs[r].pc = "read"
  /\ LeaveLoop(r)

\* the six-minute timer fires: reader.cancel() resolves the pending read
\* with done (the delay itself is not modelled: the timer may fire at any
\* time while it is armed)
StreamTimeout(r) ==
  /\ runs[r].pc = "read"
  /\ runs[r].streamTimeout
  /\ LeaveLoop(r)

\* reader.read() rejects with a network error
ReadFails(r) ==
  /\ runs[r].pc = "read"
  /\ RunFails(r, "network error")

\* ---------------------------------------------------- fetchComparisonData
RefreshError(ok, prev) == IF ok THEN prev ELSE <<"HTTP error! status">>

\* variant: the finally block leaves the abort handle in place
RefreshSettles_KeepHandle(r, ok) ==
  /\ runs[r].pc = "refresh"
  /\ error' = RefreshError(ok, error)
  /\ loading' = FALSE
  /\ isRunning' = FALSE
  /\ runs' = [runs EXCEPT ![r].pc = "done"]
  /\ UNCHANGED <<query, selectedModels, latestSession, earlyResults,
                 modelProgress, abortControllerRef, mountFetch, now>>

\* the refresh awaited by a run settles; then the run's finally block
RefreshSettles(r, ok) ==
  /\ runs[r].pc = "refresh"
  /\ error' = RefreshError(ok, error)
  /\ loading' = FALSE
  /\ abortControllerRef' = 0
  /\ isRunning' = FALSE
  /\ runs' = [runs EXCEPT ![r].pc = "done"]
  /\ UNCHANGED <<query, selectedModels, latestSession, earlyResults,
                 modelProgress, mountFetch, now>>

\* the fetchComparisonData started by the mount effect settles
MountFetchSettles(ok) ==
  /\ mountFetch
  /\ mountFetch' = FALSE
  /\ error' = RefreshError(ok, error)
  /\ loading' = FALSE
  /\ UNCHANGED <<query, selectedModels, isRunning, latestSession,
                 earlyResults, modelProgress, abortControllerRef, runs,
                 now>>

\* ------------------------------------------- stopComparison, resetComparison
\* variant: stop fails every worker, finished or not
StopEntry_All(e) == [e EXCEPT !.status = "failed", !.stage = "Stopped by user"]

\* variant: stop also queues again the workers that had failed
StopEntry_Requeue(e) ==
  IF e.status = "running" \/ e.status = "pending"
    THEN [e EXCEPT !.status = "failed", !.stage = "Stopped by user"]
    ELSE IF e.status = "failed"
      THEN [e EXCEPT !.status = "pending", !.stage = "Initializing..."]
      ELSE e

StopEntry(e) ==
  IF e.status = "running" \/ e.status = "pending"
    THEN [e EXCEPT !.status = "failed", !.stage = "Stopped by user"]
    ELSE e

StopMap(prev) == [i \in 1..Len(prev) |-> StopEntry(prev[i])]

Active(run) == run.pc \in {"fetch", "read"}

\* abort() rejects the pending fetch or read of the run that owns the
\* controller with AbortError; its catch returns and its finally block runs
\* in the microtasks of this same turn
AbortRuns(rs, ref) ==
  [i \in 1..Len(rs) |->
     IF i = ref /\ Active(rs[i])
       THEN [rs[i] EXCEPT !.pc = "done", !.streamTimeout = FALSE,
                          !.stopRequested = TRUE]
       ELSE [rs[i] EXCEPT !.stopRequested = @ \/ Active(rs[i])]]

\* variant: the rejection caused by abort() is reported like any other
StopComparison_ReportAbort ==
  /\ runs' = AbortRuns(runs, abortControllerRef)
  /\ abortControllerRef' = 0
  /\ isRunning' = FALSE
  /\ modelProgress' = StopMap(modelProgress)
  /\ error' = IF abortControllerRef # 0 /\ Active(runs[abortControllerRef])
                THEN <<"The user aborted a request.">> ELSE error
  /\ UNCHANGED <<query, selectedModels, latestSession, earlyResults,
                 loading, mountFetch, now>>

StopComparison ==
  /\ runs' = AbortRuns(runs, abortControllerRef)
  /\ abortControllerRef' = 0
  /\ isRunning' = FALSE
  /\ modelProgress' = StopMap(modelProgress)
  /\ UNCHANGED <<query, selectedModels, latestSession, earlyResults, error,
                 loading, mountFetch, now>>

ResetComparison ==
  /\ runs' = AbortRuns(runs, abortControllerRef)
  /\ abortControllerRef' = 0
  /\ isRunning' = FALSE
  /\ query' = <<>>
  /\ earlyResults' = <<>>
  /\ latestSession' = NoSession
  /\ modelProgress' = <<>>
  /\ error' = NoError
  /\ UNCHANGED <<selectedModels, loading, mountFetch, now>>

\* ------------------------------------------------- the one-second interval
\* variant: the estimate is not capped
Synthetic_Uncapped(progress, elapsed10, modelIndex) ==
  LET modelDelay10 == BaseDelay10 + modelIndex * DelayStep10
      modelRate100 == BaseRate100 + modelIndex * RateStep100
      adjusted10 == Max(0, elapsed10 - modelDelay10)
  IN IF progress < SyntheticCap /\ adjusted10 > 0
       THEN Max(progress, 1 + ((adjusted10 * modelRate100) \div 1000))
       ELSE progress

\* variant: every worker has the onset delay and the rate of the first
Synthetic_SameOnset(progress, elapsed10, modelIndex) ==
  LET adjusted10 == Max(0, elapsed10 - BaseDelay10)
  IN IF progress < SyntheticCap /\ adjusted10 > 0
       THEN Min(SyntheticCap,
                Max(progress, 1 + ((adjusted10 * BaseRate100) \div 1000)))
       ELSE progress

Synthetic(progress, elapsed10, modelIndex) ==
  LET modelDelay10 == BaseDelay10 + modelIndex * DelayStep10
      modelRate100 == BaseRate100 + modelIndex * RateStep100
      adjusted10 == Max(0, elapsed10 - modelDelay10)
  IN IF progress < SyntheticCap /\ adjusted10 > 0
       THEN Min(SyntheticCap,
                Max(progress, 1 + ((adjusted10 * modelRate100) \div 1000)))
       ELSE progress

\* variant: the tick refreshes the duration of every worker
TickEntry_All(e, modelIndex, t) ==
  IF e.startTime = Undef
    THEN [e EXCEPT !.currentDuration = NaN]
    ELSE IF e.status = "running"
      THEN [e EXCEPT !.currentDuration = t - e.startTime,
                     !.progress = Max(e.progress,
                                      Synthetic(e.progress, t - e.startTime, modelIndex))]
      ELSE [e EXCEPT !.currentDuration = t - e.startTime]

TickEntry(e, modelIndex, t) ==
  IF e.status = "running" THEN
    IF e.startTime = Undef
      THEN [e EXCEPT !.currentDuration = NaN]
      ELSE [e EXCEPT !.currentDuration = t - e.startTime,
                     !.progress = Max(e.progress,
                                      Synthetic(e.progress, t - e.startTime, modelIndex))]
  ELSE e

TickMap(prev, t) == [i \in 1..Len(prev) |-> TickEntry(prev[i], i - 1, t)]

\* variant: the interval is never cleared
Tick_Always ==
  /\ modelProgress' = TickMap(modelProgress, now)
  /\ UNCHANGED <<query, selectedModels, isRunning, latestSession,
                 earlyResults, error, loading, abortControllerRef, runs,
                 mountFetch, now>>

Tick ==
  /\ isRunning
  /\ modelProgress' = TickMap(modelProgress, now)
  /\ UNCHANGED <<query, selectedModels, isRunning, latestSession,
                 earlyResults, error, loading, abortControllerRef, runs,
                 mountFetch, now>>

TimeSteps == {50}

Elapse(d) ==
  /\ now' = now + d
  /\ UNCHANGED <<query, selectedModels, isRunning, latestSession,
                 earlyResults, modelProgress, error, loading,
                 abortControllerRef, runs, mountFetch>>

RunIds == 1..Len(runs)

\* a step that spends one unit of the budget, and a step that spends none
Counted(max) == work < max /\ work' = work + 1
Free == work' = work

Next ==
  \/ Counted(MaxWork) /\ \E q \in QueryInputs : SetQuery(q)
  \/ Counted(MaxWork) /\ \E m \in ModelIds : ToggleModel(m)
  \/ Counted(MaxWork) /\ \E keys \in KeyMaps : RunComparison(keys)
  \/ Counted(MaxWork) /\ \E r \in RunIds, evt \in Events : ReadEvent(r, evt)
  \/ Counted(MaxWork) /\ \E d \in TimeSteps : Elapse(d)
  \/ Free /\ \E r \in RunIds, o \in FetchOutcomes : FetchSettles(r, o)
  \/ Free /\ \E r \in RunIds : ReadDone(r)
  \/ Free /\ \E r \in RunIds : StreamTimeout(r)
  \/ Free /\ \E r \in RunIds : ReadFails(r)
  \/ Free /\ \E r \in RunIds, ok \in BOOLEAN : RefreshSettles(r, ok)
  \/ Free /\ \E ok \in BOOLEAN : MountFetchSettles(ok)
  \/ Free /\ StopComparison
  \/ Free /\ ResetComparison
  \/ Free /\ Tick

Spec == Init /\ [][Next]_vars

\* ======================================================================
\* Claims
\* ======================================================================
WorkerEvents == ProgressEvents \cup CompleteEvents \cup ErrorEvents

Terminal(e) == e.status \in {"completed", "failed"}

NonTerminal(e) == e.status \in {"pending", "running"}

Entries == 1..Len(modelProgress)

\* C1: within one run, no model_progress event and no tick lowers the
\* displayed progress of a running worker.
C1_ProgressNeverDecreases ==
  [][(Len(runs) = 1 /\ (Tick \/ \E evt \in ProgressEvents : ReadEvent(1, evt)))
       => \A i \in Entries :
            modelProgress[i].status = "running"
            => modelProgress'[i].progress >= modelProgress[i].progress]_vars

\* C2: an event naming a worker that is already completed or failed leaves
\* that worker's status, stage and progress as they were.
C2_TerminalAbsorbing ==
  [][\A r \in RunIds, evt \in WorkerEvents :
       (ReadEvent(r, evt) /\ HasKey(modelProgress, evt.model)
          /\ Terminal(Get(modelProgress, evt.model)))
       => /\ Get(modelProgress', evt.model).status = Get(modelProgress, evt.model).status
          /\ Get(modelProgress', evt.model).stage = Get(modelProgress, evt.model).stage
          /\ Get(modelProgress', evt.model).progress = Get(modelProgress, evt.model).progress]_vars

\* C3: right after a model_complete event for W is applied, W is completed
\* with progress 100, stage 'Completed', the event's elapsed time and the
\* event's result summary.
C3_CompletePinsWorker ==
  [][\A r \in RunIds, evt \in CompleteEvents :
       ReadEvent(r, evt)
       => /\ HasKey(modelProgress', evt.model)
          /\ Get(modelProgress', evt.model).status = "completed"
          /\ Get(modelProgress', evt.model).progress = 100
          /\ Get(modelProgress', evt.model).stage = "Completed"
          /\ Get(modelProgress', evt.model).currentDuration = evt.elapsed
          /\ Get(modelProgress', evt.model).resultSummary = evt.result_summary]_vars

\* a worker that was started with the run has been completed by an event
C3_Witness ==
  \E i \in Entries :
    /\ modelProgress[i].status = "completed"
    /\ modelProgress[i].startTime # Undef
    /\ modelProgress[i].progress = 100
    /\ modelProgress[i].resultSummary = "summary"

\* C4: stop in any state clears the running flag, fails exactly the pending
\* and running workers with stage 'Stopped by user', and leaves every
\* completed or failed worker as it was.
C4_StopFailsOnlyNonTerminal ==
  [][StopComparison
       => /\ ~isRunning'
          /\ Keys(modelProgress') = Keys(modelProgress)
          /\ \A i \in Entries :
               IF NonTerminal(modelProgress[i])
                 THEN /\ modelProgress'[i].status = "failed"
                      /\ modelProgress'[i].stage = "Stopped by user"
                      /\ modelProgress'[i].progress = modelProgress[i].progress
                 ELSE modelProgress'[i] = modelProgress[i]]_vars

\* two workers stopped by the user next to one that had completed
C4_Witness ==
  /\ ~isRunning
  /\ Len(modelProgress) = 3
  /\ Cardinality({i \in Entries : modelProgress[i].stage = "Stopped by user"
                                    /\ modelProgress[i].status = "failed"}) = 2
  /\ Cardinality({i \in Entries : modelProgress[i].status = "completed"
                                    /\ modelProgress[i].stage = "Completed"}) = 1

\* C5: once stop has been requested while a run was active, no event of
\* that run's stream and no tick changes the worker map, the early results,
\* the session or the error field.
C5_NothingAppliedAfterStop ==
  [][/\ \A r \in RunIds, evt \in Events :
          (runs[r].stopRequested /\ ReadEvent(r, evt))
          => UNCHANGED <<modelProgress, earlyResults, latestSession, error>>
     /\ (Len(runs) > 0 /\ runs[Len(runs)].stopRequested /\ Tick)
          => UNCHANGED <<modelProgress, earlyResults, latestSession, error>>]_vars

\* C6: at most one event stream is open at any time.
C6_AtMostOneStream ==
  Cardinality({r \in RunIds : runs[r].pc = "read"}) <= 1

\* C7: when the six-minute timer fires, every pending or running worker
\* becomes failed with a new (timeout) stage label and the others are
\* unchanged.
C7_TimeoutFailsNonTerminal ==
  [][\A r \in RunIds :
       StreamTimeout(r)
       => \A i \in Entries :
            IF NonTerminal(modelProgress[i])
              THEN /\ modelProgress'[i].status = "failed"
                   /\ modelProgress'[i].stage # modelProgress[i].stage
              ELSE modelProgress'[i] = modelProgress[i]]_vars
\* the scheduling the browser guarantees for timers: an armed timeout and a
\* live interval eventually fire; nothing is assumed of the server
TimerFairness ==
  /\ WF_vars(Free /\ Tick)
  /\ \A r \in 1..MaxWork : WF_vars(Free /\ r \in RunIds /\ StreamTimeout(r))

SpecTimers == Init /\ [][Next]_vars /\ TimerFairness

\* C8: under fairness of the timers alone, every run that was started
\* (the running flag is set) eventually ends (the flag is cleared).
C8_EveryRunEnds == isRunning ~> ~isRunning
\* ----------------------------------------------------------------------
\* The handlers and the stream with a larger budget and a frozen clock: the
\* states in which runComparison validates its inputs and replaces the
\* previous run, after the selection has been edited.
NextConfig ==
  \/ Counted(MaxConfigWork) /\ \E q \in QueryInputs : SetQuery(q)
  \/ Counted(MaxConfigWork) /\ \E m \in ModelIds : ToggleModel(m)
  \/ Counted(MaxConfigWork) /\ \E keys \in KeyMaps : RunComparison(keys)
  \/ Counted(MaxConfigWork) /\ \E r \in RunIds, evt \in Events : ReadEvent(r, evt)
  \/ Free /\ \E r \in RunIds, o \in FetchOutcomes : FetchSettles(r, o)
  \/ Free /\ StopComparison

SpecConfig == Init /\ [][NextConfig]_vars

AllBlank(s) == \A i \in 1..Len(s) : s[i] = Blank

Selected == SeqToSet(selectedModels)

\* the inputs the validation of start must refuse
Refused(keys) ==
  \/ AllBlank(query)
  \/ Selected = {}
  \/ \E m \in Selected : m \notin DOMAIN keys \/ AllBlank(keys[m])

\* C9: a start with an empty or blank query, an empty selection or a
\* selected worker without a non-blank credential opens no stream and does
\* not set the running flag.
C9_InvalidStartOpensNothing ==
  [][\A keys \in KeyMaps :
       (RunComparison(keys) /\ Refused(keys))
       => /\ runs' = runs
          /\ isRunning' = isRunning
          /\ abortControllerRef' = abortControllerRef
          /\ modelProgress' = modelProgress]_vars

\* a start was refused for the missing credential of one selected worker,
\* and no run was ever opened
C9_Witness ==
  /\ runs = <<>>
  /\ ~isRunning
  /\ \E m \in Selected : error = MissingKeysMsg(<<m>>)

\* C10: a start that passes validation leaves one fresh entry per selected
\* worker (in selection order, nothing else), no early results, no session
\* and no error.
C10_StartReplacesRunState ==
  [][\A keys \in KeyMaps :
       (RunComparison(keys) /\ ~Refused(keys))
       => /\ Keys(modelProgress') = selectedModels
          /\ \A i \in 1..Len(modelProgress') :
               /\ modelProgress'[i].progress = 0
               /\ modelProgress'[i].status = "running"
               /\ modelProgress'[i].resultSummary = "undefined"
          /\ earlyResults' = <<>>
          /\ latestSession' = NoSession
          /\ error' = NoError]_vars

\* a second run, for another selection, has just replaced a first run that
\* had received events
C10_Witness ==
  /\ Len(runs) = 2
  /\ runs[1].eventCount > 0
  /\ runs[2].pc = "fetch"
  /\ SeqToSet(runs[1].sel) \ SeqToSet(runs[2].sel) # {}
  /\ Keys(modelProgress) = runs[2].sel
  /\ earlyResults = <<>>
  /\ latestSession = NoSession
  /\ error = NoError

\* ----------------------------------------------------------------------
\* C11: reset in any state leaves the run not running, no request or
\* stream of any run in flight, the query, the worker map and the early
\* results empty, no session and no error: the state stop leaves, with
\* those fields cleared.
C11_ResetStopsAndClears ==
  [][ResetComparison
       => /\ ~isRunning'
          /\ \A r \in RunIds : ~Active(runs'[r])
          /\ runs' = AbortRuns(runs, abortControllerRef)
          /\ abortControllerRef' = 0
          /\ query' = <<>>
          /\ modelProgress' = <<>>
          /\ earlyResults' = <<>>
          /\ latestSession' = NoSession
          /\ error' = NoError]_vars

\* C12: in the state a stop leaves, a second stop changes nothing: the
\* worker map, the running flag, the abort handle and the runs stay as
\* they are, and stop never touches the early results, the session or the
\* error field.
C12_StopIdempotent ==
  [][StopComparison
       => /\ StopMap(modelProgress') = modelProgress'
          /\ AbortRuns(runs', abortControllerRef') = runs'
          /\ abortControllerRef' = 0
          /\ ~isRunning'
          /\ UNCHANGED <<earlyResults, latestSession, error>>]_vars

\* a stop has aborted a run that had completed one worker and left the
\* others stopped
C12_Witness ==
  /\ abortControllerRef = 0
  /\ ~isRunning
  /\ \E r \in RunIds : runs[r].stopRequested /\ runs[r].pc = "done"
                         /\ runs[r].eventCount > 0
  /\ \E i \in Entries : modelProgress[i].stage = "Stopped by user"
  /\ earlyResults # <<>>

\* C13: a stop, whenever it is issued, leaves the error field as it was,
\* the abort of the run it cancels included.
C13_StopSetsNoError ==
  [][StopComparison => error' = error]_vars

\* a run was stopped while it was reading its stream, after the stream had
\* reported an error: the field still holds that message
C13_Witness ==
  /\ Len(runs) = 1
  /\ runs[1].stopRequested
  /\ runs[1].pc = "done"
  /\ runs[1].eventCount > 0
  /\ error = <<"boom">>

\* C15: when the request rejects, answers with a failure status or has no
\* body, the run ends in that turn: the error field holds the failure
\* message, the running flag is cleared, every worker of the run is failed.
C15_TransportFailureEndsRun ==
  [][\A r \in RunIds, o \in FetchOutcomes \ {"ok"} :
       FetchSettles(r, o)
       => /\ error' = <<FetchMessage(o)>>
          /\ ~isRunning'
          /\ runs'[r].pc = "done"
          /\ \A m \in SeqToSet(runs[r].sel) :
               /\ HasKey(modelProgress', m)
               /\ Get(modelProgress', m).status = "failed"]_vars

\* the only run ended because the response had no body
C15_Witness ==
  /\ Len(runs) = 1
  /\ runs[1].pc = "done"
  /\ ~runs[1].stopRequested
  /\ ~isRunning
  /\ error = <<FetchMessage("nobody")>>
  /\ Len(modelProgress) = 3
  /\ \A i \in Entries : modelProgress[i].status = "failed"
                          /\ modelProgress[i].stage = "Failed"

\* C20: the end of the stream and the end of the run that follows it leave
\* every worker as the last event left it; the run is then not running.
C20_StreamEndKeepsWorkers ==
  [][\A r \in RunIds :
       /\ ReadDone(r) => modelProgress' = modelProgress
       /\ (\E ok \in BOOLEAN : RefreshSettles(r, ok))
            => modelProgress' = modelProgress /\ ~isRunning']_vars

\* the only run has ended after its stream closed, with a worker that
\* reported progress and is still running
C20_Witness ==
  /\ Len(runs) = 1
  /\ runs[1].pc = "done"
  /\ ~runs[1].stopRequested
  /\ ~isRunning
  /\ \E i \in Entries : /\ modelProgress[i].status = "running"
                          /\ modelProgress[i].stage = "Researching"

\* ----------------------------------------------------------------------
\* One run, started after the query and the selection were edited, against
\* a server that sends the events of the scripted scenarios; the clock is
\* frozen.
WorkerA == "zhipu"
WorkerB == "deepseek"

EvtStreamError == Evt("error", "", "", Undef, Undef, "undefined", NoResult, "boom", NoSession)
EvtProgressA == Evt("model_progress", WorkerA, "Researching", 30, 40, "undefined", NoResult, "", NoSession)
EvtProgressB == Evt("model_progress", WorkerB, "Researching", 30, 20, "undefined", NoResult, "", NoSession)
EvtCompleteA == Evt("model_complete", WorkerA, "", 80, Undef, "summary", [model |-> WorkerA, tag |-> 1], "", NoSession)
EvtCompleteB == Evt("model_complete", WorkerB, "", 80, Undef, "summary", [model |-> WorkerB, tag |-> 1], "", NoSession)
EvtErrorB == Evt("model_error", WorkerB, "", 50, Undef, "undefined", NoResult, "", NoSession)

ScriptEvents ==
  {EvtStreamError, EvtProgressA, EvtProgressB, EvtCompleteA, EvtCompleteB,
   EvtErrorB}

NextScript ==
  \/ Counted(MaxScriptWork) /\ runs = <<>> /\ SetQuery(<<"q">>)
  \/ Counted(MaxScriptWork) /\ runs = <<>> /\ ToggleModel("kimi")
  \/ Counted(MaxScriptWork) /\ runs = <<>> /\ RunComparison(AllKeys)
  \/ Counted(MaxScriptWork) /\ \E r \in RunIds, evt \in ScriptEvents : ReadEvent(r, evt)
  \/ Free /\ \E r \in RunIds : FetchSettles(r, "ok")
  \/ Free /\ \E r \in RunIds : ReadDone(r)
  \/ Free /\ \E r \in RunIds, ok \in BOOLEAN : RefreshSettles(r, ok)
  \/ Free /\ \E ok \in BOOLEAN : MountFetchSettles(ok)

SpecScript == Init /\ [][NextScript]_vars

\* the only run, for a and b, has read exactly these events
Fed(script) ==
  /\ Len(runs) = 1
  /\ runs[1].sel = <<WorkerA, WorkerB>>
  /\ runs[1].log = [i \in 1..Len(script) |-> LogLine(script[i])]

\* C14: when the run of a and b whose stream delivered an error event,
\* then a model_complete for a and one for b, and then closed, has ended,
\* the error field is not empty and both workers are completed.
C14_StreamErrorSurvivesRun ==
  (Fed(<<EvtStreamError, EvtCompleteA, EvtCompleteB>>) /\ runs[1].pc = "done")
    => /\ error # NoError
       /\ \A i \in Entries : modelProgress[i].status = "completed"

\* C18: the early results never hold two entries for one worker; after a
\* model_complete with a result for W, the entries of the other workers
\* are the ones held before, in order, followed by the event's result as
\* the only entry for W.
C18_OneEarlyResultPerWorker ==
  [][/\ \A i, j \in 1..Len(earlyResults') :
          earlyResults'[i].model = earlyResults'[j].model => i = j
     /\ \A r \in RunIds, evt \in CompleteEvents :
          (ReadEvent(r, evt) /\ evt.result # NoResult)
          => earlyResults' =
               Append(SelectSeq(earlyResults, LAMBDA res : res.model # evt.result.model),
                      evt.result)]_vars

\* a second result for a has replaced the one the list held in front of b's
C18_Witness ==
  /\ Len(runs) = 1
  /\ runs[1].log = <<LogLine(EvtCompleteA), LogLine(EvtCompleteB), LogLine(EvtCompleteA)>>
  /\ earlyResults = <<EvtCompleteB.result, EvtCompleteA.result>>

ScenarioEnd(mp, early) ==
  /\ Get(mp, WorkerA).status = "completed"
  /\ Get(mp, WorkerA).progress = 100
  /\ Get(mp, WorkerB).status = "failed"
  /\ Len(early) = 1
  /\ early[1].model = WorkerA

\* C19: a model_error for a pending or running worker W leaves W failed and
\* the early results as they were; after model_progress{a,40},
\* model_progress{b,20}, model_complete{a, result}, model_error{b} in a run
\* of a and b, a is completed at 100, b is failed and the early results
\* hold one entry, for a.
C19_ErrorFailsWorkerOnly ==
  /\ [][\A r \in RunIds, evt \in ScriptEvents :
          (ReadEvent(r, evt) /\ evt.type = "model_error"
             /\ HasKey(modelProgress, evt.model)
             /\ NonTerminal(Get(modelProgress, evt.model)))
          => /\ Get(modelProgress', evt.model).status = "failed"
             /\ earlyResults' = earlyResults]_vars
  /\ [](Fed(<<EvtProgressA, EvtProgressB, EvtCompleteA, EvtErrorB>>)
          => ScenarioEnd(modelProgress, earlyResults))

\* the scripted run has read its four events
C19_Witness ==
  /\ Fed(<<EvtProgressA, EvtProgressB, EvtCompleteA, EvtErrorB>>)
  /\ runs[1].pc = "read"
  /\ ScenarioEnd(modelProgress, earlyResults)

\* ----------------------------------------------------------------------
\* One run whose stream arrives as chunks of bytes: the pieces of three
\* streams.  StreamA holds two records, the first ended by CR LF; StreamB
\* holds one record with a two-byte character; StreamC holds a comment
\* line, a record whose payload is cut short, a record whose payload is
\* null, and a session_complete record.
StreamA ==
  DataPrefix \o <<"{", "p", "}", CR, LF>> \o DataPrefix \o <<"{", "c", "}", LF>>

StreamB == DataPrefix \o <<"{", Lead, Cont, "}", LF>>

StreamC ==
  <<":", " ", "k", LF>> \o DataPrefix \o <<"{", "p", LF>>
    \o DataPrefix \o JsonNull \o <<LF>> \o DataPrefix \o <<"{", "s", "}", LF>>

\* the pieces of a stream between two of the given cuts
Pieces(stream, cuts) ==
  {SubSeq(stream, i + 1, j) : i \in cuts \cup {0}, j \in cuts \cup {Len(stream)}}
    \ {<<>>}

\* StreamA is cut inside the prefix, between CR and LF and on the record
\* boundary; StreamB inside its character; StreamC inside its comment line
\* and inside its short record
Chunks ==
  Pieces(StreamA, {3, 10, 11}) \cup Pieces(StreamB, {8})
    \cup Pieces(StreamC, {2, 9})

NextDecoder ==
  \/ Counted(MaxDecoderWork) /\ runs = <<>> /\ SetQuery(<<"q">>)
  \/ Counted(MaxDecoderWork) /\ runs = <<>> /\ RunComparison(AllKeys)
  \/ Counted(MaxDecoderWork) /\ \E r \in RunIds, chunk \in Chunks : ReadChunk(r, chunk)
  \/ Free /\ \E r \in RunIds : FetchSettles(r, "ok")
  \/ Free /\ \E r \in RunIds : ReadDone(r)

SpecDecoder == Init /\ [][NextDecoder]_vars

\* C16: a chunk leaves the reader and the coordinator in the state that
\* the same bytes leave them in when they arrive cut into two chunks,
\* wherever the cut falls: the same records are interpreted, in the same
\* order, each once.
C16_ChunkingIrrelevant ==
  [][\A r \in RunIds, chunk \in Chunks :
       ReadChunk(r, chunk)
       => LET st == ReaderState(runs[r], modelProgress, earlyResults, error,
                                latestSession)
              after == ReaderState(runs'[r], modelProgress', earlyResults',
                                   error', latestSession')
          IN \A i \in 1..(Len(chunk) - 1) :
               Feed(Feed(st, SubSeq(chunk, 1, i)),
                    SubSeq(chunk, i + 1, Len(chunk))) = after]_vars

\* a record has been interpreted and the next one is held in the buffer,
\* cut between its CR and its LF
C16_Witness ==
  \E r \in RunIds :
    /\ runs[r].pc = "read"
    /\ runs[r].log # <<>>
    /\ runs[r].sseBuffer # <<>>
    /\ runs[r].sseBuffer[Len(runs[r].sseBuffer)] = CR

\* a line that is a record: the data prefix and the text of an object
WellFormed(rawLine) ==
  \E x \in JsonObjects : StripCR(rawLine) = DataPrefix \o <<"{", x, "}">>

EventOf(rawLine) ==
  JsonObject(CHOOSE x \in JsonObjects : StripCR(rawLine) = DataPrefix \o <<"{", x, "}">>)

RECURSIVE DispatchAll(_, _)
DispatchAll(st, lines) ==
  IF lines = <<>> THEN st
  ELSE DispatchAll(Dispatch(st, EventOf(Head(lines))), Tail(lines))

\* C17: a chunk changes the worker map, the early results, the session and
\* the error field exactly as its well-formed records do, in their order;
\* the lines without the data prefix and the payloads that do not parse
\* change none of them, and the run goes on reading.
C17_BadLinesIgnored ==
  [][\A r \in RunIds, chunk \in Chunks :
       ReadChunk(r, chunk)
       => LET st == ReaderState(runs[r], modelProgress, earlyResults, error,
                                latestSession)
              text == st.sseBuffer \o Utf8Decode(st.decoder, chunk, <<>>).text
              lines == SplitLines(text, <<>>, <<>>).lines
              want == DispatchAll(st, SelectSeq(lines, WellFormed))
          IN /\ modelProgress' = want.modelProgress
             /\ earlyResults' = want.earlyResults
             /\ latestSession' = want.latestSession
             /\ error' = want.error
             /\ runs'[r].log = want.log
             /\ runs'[r].pc = "read"
             /\ isRunning' = isRunning]_vars

\* the session_complete record, which every chunk delivers behind a line
\* that is no record, has been applied and the run is still reading
C17_Witness ==
  /\ latestSession = "s1"
  /\ isRunning
  /\ error = NoError
  /\ \E r \in RunIds : runs[r].pc = "read" /\ runs[r].eventCount > Len(runs[r].log)

\* ----------------------------------------------------------------------
\* C21: a run that has ended holds no armed timeout and does not own the
\* stored abort handle; a timeout is armed only while its run reads its
\* stream.
C21_EndedRunHoldsNothing ==
  \A r \in RunIds :
    /\ runs[r].pc = "done" => ~runs[r].streamTimeout /\ abortControllerRef # r
    /\ runs[r].streamTimeout => runs[r].pc = "read"

\* a run that read events ended by its own cleanup after the refresh, and
\* a later run was stopped while it was connecting
C21_Witness ==
  /\ Len(runs) = 2
  /\ runs[1].pc = "done" /\ runs[1].refreshes = 1 /\ ~runs[1].stopRequested
  /\ runs[2].pc = "done" /\ runs[2].stopRequested
  /\ abortControllerRef = 0

\* C22: every worker's displayed progress is an integer from 0 to 100 (the
\* server sends progress values in 0..100, or none).
C22_ProgressInRange ==
  \A i \in Entries : modelProgress[i].progress \in 0..100

\* a model_error without a progress value has made an entry for a worker
\* the run had not started
C22_Witness ==
  \E i \in Entries :
    /\ modelProgress[i].status = "failed"
    /\ modelProgress[i].startTime = Undef
    /\ modelProgress[i].progress = 0

\* C30: a run calls the metrics refresh once, when its stream ends, after
\* its last event and before its cleanup; a run that stop aborts, or whose
\* request or read fails, never calls it.
C30_RefreshOncePerNormalEnd ==
  [][\A r \in RunIds :
       /\ ReadDone(r) => /\ runs[r].refreshes = 0
                         /\ runs'[r].refreshes = 1
                         /\ runs'[r].pc = "refresh"
       /\ (\E ok \in BOOLEAN : RefreshSettles(r, ok)) => runs'[r].refreshes = 1
       /\ (\E evt \in Events : ReadEvent(r, evt)) => runs'[r].refreshes = 0
       /\ (Active(runs[r]) /\ runs'[r].pc = "done") => runs'[r].refreshes = 0]_vars

\* a run has ended after one refresh, and a later run has ended without
\* one because its request failed
C30_Witness ==
  /\ Len(runs) = 2
  /\ runs[1].pc = "done" /\ runs[1].refreshes = 1
  /\ runs[2].pc = "done" /\ runs[2].refreshes = 0 /\ ~runs[2].stopRequested

\* ----------------------------------------------------------------------
\* C27: a model_progress, model_complete or model_error event naming W
\* leaves the entry of every other worker, and its place in the map, as it
\* was.
C27_WorkerEventTouchesOneEntry ==
  [][\A r \in RunIds, evt \in ScriptEvents :
       (ReadEvent(r, evt) /\ evt.type \in {"model_progress", "model_complete", "model_error"})
       => /\ Len(modelProgress') = Len(modelProgress)
               + (IF HasKey(modelProgress, evt.model) THEN 0 ELSE 1)
          /\ \A i \in Entries :
               modelProgress[i].model # evt.model
               => modelProgress'[i] = modelProgress[i]]_vars

\* b has failed by a model_error while a, which had reported progress, is
\* still running
C27_Witness ==
  /\ Fed(<<EvtProgressA, EvtErrorB>>)
  /\ Get(modelProgress, WorkerA).status = "running"
  /\ Get(modelProgress, WorkerA).progress = 40
  /\ Get(modelProgress, WorkerB).status = "failed"

\* C28: an error event of the stream sets the error field and leaves the
\* worker map, the early results, the session and the running flag as
\* they were; the run goes on reading.
C28_StreamErrorSetsErrorOnly ==
  [][\A r \in RunIds, evt \in ScriptEvents :
       (ReadEvent(r, evt) /\ evt.type = "error")
       => /\ error' = <<evt.message>>
          /\ UNCHANGED <<modelProgress, earlyResults, latestSession, isRunning>>
          /\ runs'[r].pc = "read"]_vars

\* the event behind the error event of the stream has completed a, b is
\* still running and the error is shown
C28_Witness ==
  /\ Fed(<<EvtStreamError, EvtCompleteA>>)
  /\ error = <<"boom">>
  /\ isRunning
  /\ Get(modelProgress, WorkerA).status = "completed"
  /\ Get(modelProgress, WorkerB).status = "running"
  /\ Len(earlyResults) = 1

\* ----------------------------------------------------------------------
OtherLog(t) == <<t, "", Undef>>

\* C29: a session_start event, a heartbeat and an event of an unknown kind
\* leave the worker map, the early results, the session, the error field
\* and the running flag as they were.
C29_OtherEventsChangeNothing ==
  [][\A r \in RunIds, evt \in OtherEvents :
       ReadEvent(r, evt)
       => UNCHANGED <<modelProgress, earlyResults, latestSession, error,
                      isRunning>>]_vars

\* the run has read one event of each of the three kinds and its workers
\* are as the start left them
C29_Witness ==
  /\ Len(runs) = 1
  /\ runs[1].log = <<OtherLog("session_start"), OtherLog("heartbeat"), OtherLog("unknown")>>
  /\ isRunning
  /\ error = NoError
  /\ modelProgress = StartTracking(InitialProgress(runs[1].sel, now), runs[1].sel)

\* ----------------------------------------------------------------------
\* Runs started one after the other while the clock advances: by the onset
\* delay of the first worker, by the difference between two onset delays,
\* and far enough for the estimate to reach its cap.
ClockSteps == {12, 20, 500}

\* a progress report below the cap of the estimate
EvtProgressLow == Evt("model_progress", WorkerA, "Researching", 30, 1, "undefined", NoResult, "", NoSession)

ClockEvents == {EvtProgressLow, EvtCompleteA, EvtErrorB}

NextClock ==
  \/ Counted(MaxClockWork) /\ runs = <<>> /\ SetQuery(<<"q">>)
  \/ Counted(MaxClockWork) /\ runs = <<>> /\ ToggleModel(WorkerA)
  \/ Counted(MaxClockWork) /\ ~isRunning /\ RunComparison(AllKeys)
  \/ Counted(MaxClockWork) /\ \E r \in RunIds, evt \in ClockEvents : ReadEvent(r, evt)
  \/ Counted(MaxClockWork) /\ \E d \in ClockSteps : Elapse(d)
  \/ Free /\ \E r \in RunIds, o \in {"ok", "reject"} : FetchSettles(r, o)
  \/ Free /\ \E r \in RunIds : ReadDone(r)
  \/ Free /\ \E r \in RunIds : StreamTimeout(r)
  \/ Free /\ \E r \in RunIds : RefreshSettles(r, TRUE)
  \/ Free /\ StopComparison
  \/ Free /\ Tick

SpecClock == Init /\ [][NextClock]_vars

\* C23: a tick never takes a progress below 15 above 15, and never changes
\* a progress of 15 or more.
C23_SyntheticCappedAt15 ==
  [][Tick => \A i \in Entries :
               /\ modelProgress[i].progress < 15 => modelProgress'[i].progress <= 15
               /\ modelProgress[i].progress >= 15
                    => modelProgress'[i].progress = modelProgress[i].progress]_vars

\* the estimate of a worker that is still running has reached its cap
C23_Witness ==
  \E i \in Entries :
    /\ modelProgress[i].status = "running"
    /\ modelProgress[i].progress = 15
    /\ modelProgress[i].currentDuration >= 500

\* the list passed to the start that made the worker map
StartedList == runs[Len(runs)].sel

\* C24: on a tick, the running worker at position i (from 0) of the list
\* passed to start, with elapsed time e and progress p < 15, gets
\* max(p, min(15, 1 + floor((e - (2 + 1.2 i)) * (0.35 + 0.12 i)))) when
\* e > 2 + 1.2 i and keeps p otherwise; the worker map holds the workers
\* of that list first, in its order.  (e in tenths of a second: the
\* product is divided by 1000.)
C24_SyntheticFormula ==
  [][Tick =>
       /\ Len(modelProgress) >= Len(StartedList)
       /\ \A k \in 1..Len(StartedList) :
            LET i == k - 1
                p == modelProgress[k].progress
                e == now - modelProgress[k].startTime
            IN /\ modelProgress[k].model = StartedList[k]
               /\ (modelProgress[k].status = "running" /\ p < 15)
                  => modelProgress'[k].progress =
                    IF e > 20 + 12 * i
                      THEN Max(p, Min(15, 1 + (((e - (20 + 12 * i)) * (35 + 12 * i)) \div 1000)))
                      ELSE p]_vars

\* three workers started together show different estimates, each past its
\* onset delay
C24_Witness ==
  /\ Len(modelProgress) = 3
  /\ \A k \in Entries : /\ modelProgress[k].status = "running"
                          /\ modelProgress[k].currentDuration > 44
                          /\ modelProgress[k].progress \in 1..14
  /\ modelProgress[1].progress # modelProgress[2].progress

\* C25: a tick leaves every worker that is not running as it was, and the
\* status, the stage, the start time and the result summary of every
\* worker as they were.
C25_TickTouchesRunningOnly ==
  [][Tick => /\ Keys(modelProgress') = Keys(modelProgress)
             /\ \A i \in Entries :
                  /\ modelProgress[i].status # "running"
                       => modelProgress'[i] = modelProgress[i]
                  /\ modelProgress'[i].status = modelProgress[i].status
                  /\ modelProgress'[i].stage = modelProgress[i].stage
                  /\ modelProgress'[i].startTime = modelProgress[i].startTime
                  /\ modelProgress'[i].resultSummary = modelProgress[i].resultSummary]_vars

\* a tick has refreshed the duration of a running worker next to a
\* completed worker and a failed one, which keep the durations of their
\* events
C25_Witness ==
  /\ isRunning
  /\ now > 0
  /\ \E i \in Entries : /\ modelProgress[i].status = "running"
                          /\ modelProgress[i].currentDuration = now - modelProgress[i].startTime
  /\ \E i \in Entries : /\ modelProgress[i].status = "completed"
                          /\ modelProgress[i].currentDuration = EvtCompleteA.elapsed
  /\ \E i \in Entries : /\ modelProgress[i].status = "failed"
                          /\ modelProgress[i].currentDuration = EvtErrorB.elapsed

\* C26: while the run is not marked running no tick can fire, and only a
\* start that passes validation marks it running again.
C26_NoTickAfterRunEnds ==
  /\ [](~isRunning => ~ENABLED (Free /\ Tick))
  /\ [][(~isRunning /\ isRunning') => RunComparison(AllKeys)]_vars

\* a run has ended by the end of its stream with a worker still running,
\* whose duration and estimate a tick would change
C26_Witness ==
  /\ ~isRunning
  /\ Len(runs) = 1
  /\ runs[1].pc = "done"
  /\ runs[1].refreshes = 1
  /\ \E i \in Entries : modelProgress[i].status = "running"
  /\ TickMap(modelProgress, now) # modelProgress

\* ======================================================================
\* One run at a time whose stream carries session_complete events: two
\* events with different sessions, a worker's completion, then the end of
\* the stream, a stop or a reset.
MaxSessionWork == 5

EvtSession1 == Evt("session_complete", "", "", Undef, Undef, "undefined", NoResult, "", "s1")
EvtSession2 == Evt("session_complete", "", "", Undef, Undef, "undefined", NoResult, "", "s2")

SessionStreamEvents == {EvtSession1, EvtSession2, EvtCompleteA}

NextSession ==
  \/ Counted(MaxSessionWork) /\ runs = <<>> /\ SetQuery(<<"q">>)
  \/ Counted(MaxSessionWork) /\ ~isRunning /\ RunComparison(AllKeys)
  \/ Counted(MaxSessionWork) /\ \E r \in RunIds, evt \in SessionStreamEvents : ReadEvent(r, evt)
  \/ Free /\ \E r \in RunIds : FetchSettles(r, "ok")
  \/ Free /\ \E r \in RunIds : ReadDone(r)
  \/ Free /\ \E r \in RunIds : RefreshSettles(r, TRUE)
  \/ Free /\ StopComparison
  \/ Free /\ ResetComparison

SpecSession == Init /\ [][NextSession]_vars

\* C31: the session is set by a session_complete event, and a session that
\* is set is changed by no event of the stream, a second session_complete
\* included: it changes only when a start is accepted or on reset.
C31_SessionSetOnce ==
  /\ [][(latestSession = NoSession /\ latestSession' # NoSession)
          => \E r \in RunIds : ReadEvent(r, EvtSession1) \/ ReadEvent(r, EvtSession2)]_vars
  /\ [][(latestSession # NoSession /\ latestSession' # latestSession)
          => (RunComparison(AllKeys) \/ ResetComparison)]_vars

\* ----------------------------------------------------------------------
\* C32: the workers that have an entry in the worker map are workers of
\* the list the last accepted start was given; an event that names another
\* worker makes no entry.
C32_MapWithinStartedList ==
  SeqToSet(Keys(modelProgress))
    \subseteq (IF runs = <<>> THEN {} ELSE SeqToSet(StartedList))

\* C33: when a read of the stream fails, a worker that was completed stays
\* completed with progress 100, and the workers of the run that were not
\* terminal become failed.
C33_ReadFailureSparesCompleted ==
  [][\A r \in RunIds :
       ReadFails(r)
       => /\ Len(modelProgress') >= Len(modelProgress)
          /\ \A i \in Entries :
               /\ modelProgress[i].status = "completed"
                  => /\ modelProgress'[i].status = "completed"
                     /\ modelProgress'[i].progress = 100
               /\ (NonTerminal(modelProgress[i])
                   /\ modelProgress[i].model \in SeqToSet(runs[r].sel))
                  => modelProgress'[i].status = "failed"]_vars

\* C34: while a run reads its stream the running flag is set and the
\* stored abort handle is the controller of that run.
C34_OpenStreamOwnsFlagAndHandle ==
  \A r \in RunIds :
    runs[r].pc = "read" => (isRunning /\ abortControllerRef = r)

\* C37: every worker whose status is completed has progress 100.
C37_CompletedMeansHundred ==
  \A i \in Entries :
    modelProgress[i].status = "completed" => modelProgress[i].progress = 100

\* a worker has completed, and afterwards time has passed, a tick has run
\* and a stop has failed the worker that was still running
C37_Witness ==
  /\ now > 0
  /\ ~isRunning
  /\ \E i \in Entries : /\ modelProgress[i].status = "completed"
                          /\ modelProgress[i].progress = 100
  /\ \E i \in Entries : /\ modelProgress[i].stage = "Stopped by user"
                          /\ modelProgress[i].progress \in 1..SyntheticCap

\* C38: every worker that has an entry in the early results is completed
\* in the worker map.
C38_EarlyResultMeansCompleted ==
  \A i \in 1..Len(earlyResults) :
    Get(modelProgress, earlyResults[i].model).status = "completed"

\* ======================================================================
\* A stream whose last record is not followed by a line feed: the chunks
\* of StreamA cut behind its first record and behind that record's CR LF,
\* and StreamD, a record without any line end; then the end of the stream.
StreamD == DataPrefix \o <<"{", "c", "}">>

TailChunks == Pieces(StreamA, {9, 11}) \cup {StreamD}

NextTail ==
  \/ Counted(MaxDecoderWork) /\ runs = <<>> /\ SetQuery(<<"q">>)
  \/ Counted(MaxDecoderWork) /\ runs = <<>> /\ RunComparison(AllKeys)
  \/ Counted(MaxDecoderWork) /\ \E r \in RunIds, chunk \in TailChunks : ReadChunk(r, chunk)
  \/ Free /\ \E r \in RunIds : FetchSettles(r, "ok")
  \/ Free /\ \E r \in RunIds : ReadDone(r)
  \/ Free /\ \E r \in RunIds : RefreshSettles(r, TRUE)

SpecTail == Init /\ [][NextTail]_vars

\* C35: the end of the stream interprets nothing: whatever the line buffer
\* holds then, a whole record included, the worker map, the early results,
\* the session, the event count and the log of the run stay as they were.
C35_UnterminatedRecordDropped ==
  [][\A r \in RunIds :
       ReadDone(r)
       => /\ modelProgress' = modelProgress
          /\ earlyResults' = earlyResults
          /\ latestSession' = latestSession
          /\ runs'[r].eventCount = runs[r].eventCount
          /\ runs'[r].log = runs[r].log]_vars

\* the run has ended after one interpreted record, with the completion
\* record of zhipu still in its buffer: zhipu is not completed and has no
\* early result
C35_Witness ==
  /\ Len(runs) = 1
  /\ runs[1].pc = "done"
  /\ runs[1].sseBuffer = StreamD
  /\ runs[1].log = <<LogLine(JsonObject("p"))>>
  /\ Get(modelProgress, "zhipu").status = "running"
  /\ earlyResults = <<>>

\* ----------------------------------------------------------------------
\* C36: a start that the validation refuses leaves the worker map, the
\* early results, the session and the running flag as they were; the error
\* field is left as it was when the query is blank or no worker is
\* selected, and otherwise names the selected workers without credential.
C36_RefusedStartKeepsRunState ==
  [][\A keys \in KeyMaps :
       (RunComparison(keys) /\ Refused(keys))
       => /\ modelProgress' = modelProgress
          /\ earlyResults' = earlyResults
          /\ latestSession' = latestSession
          /\ isRunning' = isRunning
          /\ error' =
               IF AllBlank(query) \/ Selected = {}
                 THEN error
                 ELSE MissingKeysMsg(
                        SelectSeq(selectedModels,
                                  LAMBDA m : m \notin DOMAIN keys \/ AllBlank(keys[m])))]_vars

\* a start has been refused for one missing credential after a run that
\* had collected an early result
C36_Witness ==
  /\ Len(runs) = 1
  /\ earlyResults # <<>>
  /\ modelProgress # <<>>
  /\ \E m \in Selected : error = MissingKeysMsg(<<m>>)
====
